---- MODULE Spec2Model ----
(***************************************************************************)
(* Model of bot.py: the WhatsApp webhook bot.                              *)
(*   - MenuSystem (per-user menu state machine over user_sessions)         *)
(*   - GoogleSheetsService.is_user_authorized / check_authorization        *)
(*   - GoogleDriveService.get_user_folder_files                            *)
(*   - webhook_receive (POST /webhook)                                     *)
(* Python strings that the code inspects character by character (message   *)
(* texts, phone numbers, sheet cells) are sequences of one-character       *)
(* strings.  Message bodies that the code only builds and sends are        *)
(* sequences of string pieces (their concatenation is the body).           *)
(***************************************************************************)
EXTENDS Integers, Sequences, FiniteSets, TLC

VARIABLES
    user_sessions,      \* MenuSystem.user_sessions : dict user_id -> menu
    TESTING_MODE,       \* Config.TESTING_MODE
    sheets_initialized, \* google_sheets_service.initialized (and .service)
    drive_initialized,  \* google_drive_service.initialized (and .service)
    request,            \* the request handled last
    prev_sessions,      \* user_sessions when that request arrived
    marked,             \* mark_as_read calls made by that request (message ids)
    is_authorized,      \* result of check_authorization in that request
    sheets_calls,       \* calls of is_user_authorized made by that request
    sheet_result,       \* what the Sheets API answered in that request
    menu_response,      \* handle_user_input's return value in that request
    drive_calls,        \* calls of get_user_folder_files made by that request
    sent,               \* send_message calls made by that request
    http_response,      \* (body, status) returned to the platform
    VERIFY_TOKEN,       \* Config.VERIFY_TOKEN
    payload,            \* the JSON body of that request (POST /webhook)
    calls,              \* the collaborator calls of that request, in order
    drive_result,       \* what the Drive API answered in that request
    threads             \* the deliveries in progress (concurrent handling)

vars == <<user_sessions, TESTING_MODE, sheets_initialized, drive_initialized,
          request, prev_sessions, marked, is_authorized, sheets_calls,
          sheet_result, menu_response, drive_calls, sent, http_response,
          VERIFY_TOKEN, payload, calls, drive_result, threads>>

\* The configuration, fixed when the process starts
config == <<TESTING_MODE, sheets_initialized, drive_initialized, VERIFY_TOKEN>>

\* Python's None, and the marker of "this step did not run in the request".
None == "None"

----------------------------------------------------------------------------
(* Character strings *)

UpperLetters ==
    <<"A","B","C","D","E","F","G","H","I","J","K","L","M",
      "N","O","P","Q","R","S","T","U","V","W","X","Y","Z">>

LowerLetters ==
    <<"a","b","c","d","e","f","g","h","i","j","k","l","m",
      "n","o","p","q","r","s","t","u","v","w","x","y","z">>

Whitespace == {" ", "\t", "\n", "\r"}

\* The characters str.isdigit accepts, among the characters of the inputs
\* below (all ASCII)
DigitChars == {"0","1","2","3","4","5","6","7","8","9"}

UpperSet == {UpperLetters[i] : i \in 1..Len(UpperLetters)}

\* the lower-case letter of each upper-case letter
LowerOf == [c \in UpperSet |->
              LowerLetters[CHOOSE i \in 1..Len(UpperLetters) : UpperLetters[i] = c]]

\* str.lower() on one character
LowerChar(c) == IF c \in UpperSet THEN LowerOf[c] ELSE c

\* str.lower()
Lower(s) == [i \in 1..Len(s) |-> LowerChar(s[i])]

\* str.lstrip() / str.rstrip(): drop leading / trailing whitespace
RECURSIVE LStrip(_)
LStrip(s) == IF s # <<>> /\ Head(s) \in Whitespace THEN LStrip(Tail(s)) ELSE s

RECURSIVE RStrip(_)
RStrip(s) ==
    IF s # <<>> /\ s[Len(s)] \in Whitespace THEN RStrip(SubSeq(s, 1, Len(s) - 1)) ELSE s

\* Fault variant of Strip: only leading whitespace is dropped (lstrip
\* instead of strip).
Strip_LeftOnly(s) == LStrip(s)

\* str.strip()
Strip(s) == RStrip(LStrip(s))

\* c.isdigit()
IsDigit(c) == c \in DigitChars

\* ''.join(filter(str.isdigit, s))
DigitsOf(s) == SelectSeq(s, IsDigit)

\* a.endswith(b)
EndsWith(a, b) ==
    /\ Len(b) <= Len(a)
    /\ SubSeq(a, Len(a) - Len(b) + 1, Len(a)) = b

----------------------------------------------------------------------------
(* MenuSystem *)

MENUS == [MAIN |-> "main", MENU_1 |-> "menu1", MENU_2 |-> "menu2", MENU_3 |-> "menu3"]

MenuValues == {MENUS.MAIN, MENUS.MENU_1, MENUS.MENU_2, MENUS.MENU_3}

MainMenuText == <<"Welcome to Study Cafe Bot! 1 Academic Resources 2 Study Sessions 3 Support & Help">>
Menu1Text == <<"Academic Resources: 1.1 Course Materials 1.2 Practice Tests 1.3 Study Guides">>
Menu2Text == <<"Study Sessions: 2.1 Schedule Session 2.2 Join Live Session 2.3 View Recordings">>
Menu3Text == <<"Support & Help: 3.1 Contact Admin 3.2 FAQ 3.3 Technical Support">>

get_main_menu == [text |-> MainMenuText, type |-> MENUS.MAIN]
get_menu_1 == [text |-> Menu1Text, type |-> MENUS.MENU_1]
get_menu_2 == [text |-> Menu2Text, type |-> MENUS.MENU_2]
get_menu_3 == [text |-> Menu3Text, type |-> MENUS.MENU_3]

\* The dict literals returned for a submenu choice.
SubmenuResponse(title, menu, option) ==
    [text |-> <<title, "Fetching your files...">>, type |-> menu,
     isSubmenu |-> TRUE, option |-> option]

\* dict.get(key, default)
DictGet(d, key, default) == IF key \in DOMAIN d THEN d[key] ELSE default

\* Fault variant of DictSet: the dict is replaced by one that holds only the
\* new entry (user_sessions = {key: value}).
DictSet_ReplacesDict(d, key, value) == [k \in {key} |-> value]

\* d[key] = value
DictSet(d, key, value) ==
    [k \in (DOMAIN d) \cup {key} |-> IF k = key THEN value ELSE d[k]]

\* del d[key]
DictDel(d, key) == [k \in (DOMAIN d) \ {key} |-> d[k]]

BackTokens == {<<"b","a","c","k">>, <<"m","e","n","u">>, <<"m","a","i","n">>}

\* What a branch of handle_user_input hands back: the returned dict and the
\* session dict it leaves behind.
Keep(sessions, resp) == [response |-> resp, sessions |-> sessions]
\* Fault variant of Goto: the menu is stored for every sender that has an
\* entry, not only for user_id (one state shared by all users).
Goto_AllSessions(sessions, user_id, menu, resp) ==
    [response |-> resp,
     sessions |-> [k \in (DOMAIN sessions) \cup {user_id} |-> menu]]

Goto(sessions, user_id, menu, resp) ==
    [response |-> resp, sessions |-> DictSet(sessions, user_id, menu)]

\* Fault variant of HandleBack: the main menu is returned but the session
\* entry is left as it was.
HandleBack_NoWrite(sessions, user_id) == Keep(sessions, get_main_menu)

\* Fault variant of HandleBack: the key 'MAIN' is stored instead of the menu
\* value MENUS['MAIN'].
HandleBack_StoresKey(sessions, user_id) == Goto(sessions, user_id, "MAIN", get_main_menu)

\* "Handle back command"
HandleBack(sessions, user_id) == Goto(sessions, user_id, MENUS.MAIN, get_main_menu)

\* Fault variant of HandleMain: "2" and "3" lead to each other's menu.
HandleMain_Swapped(sessions, user_id, input_text) ==
    IF input_text = <<"1">> THEN Goto(sessions, user_id, MENUS.MENU_1, get_menu_1)
    ELSE IF input_text = <<"2">> THEN Goto(sessions, user_id, MENUS.MENU_3, get_menu_3)
    ELSE IF input_text = <<"3">> THEN Goto(sessions, user_id, MENUS.MENU_2, get_menu_2)
    ELSE Keep(sessions, get_main_menu)

\* Fault variant of HandleMain: a submenu option of menu 1 typed at the main
\* menu is taken as the choice of that option.
HandleMain_AcceptsLeaf(sessions, user_id, input_text) ==
    IF input_text = <<"1">> THEN Goto(sessions, user_id, MENUS.MENU_1, get_menu_1)
    ELSE IF input_text = <<"2">> THEN Goto(sessions, user_id, MENUS.MENU_2, get_menu_2)
    ELSE IF input_text = <<"3">> THEN Goto(sessions, user_id, MENUS.MENU_3, get_menu_3)
    ELSE IF input_text \in {<<"1",".","1">>, <<"1","1">>}
      THEN Keep(sessions, SubmenuResponse("Course Materials", MENUS.MENU_1, "1.1"))
    ELSE Keep(sessions, get_main_menu)

\* "Handle main menu"
HandleMain(sessions, user_id, input_text) ==
    IF input_text = <<"1">> THEN Goto(sessions, user_id, MENUS.MENU_1, get_menu_1)
    ELSE IF input_text = <<"2">> THEN Goto(sessions, user_id, MENUS.MENU_2, get_menu_2)
    ELSE IF input_text = <<"3">> THEN Goto(sessions, user_id, MENUS.MENU_3, get_menu_3)
    ELSE Keep(sessions, get_main_menu)

\* Fault variant of HandleMenu1: a submenu choice sends the session back to
\* the main menu.
HandleMenu1_LeafMoves(sessions, user_id, input_text) ==
    IF input_text \in {<<"1",".","1">>, <<"1","1">>}
      THEN Goto(sessions, user_id, MENUS.MAIN,
                SubmenuResponse("Course Materials", MENUS.MENU_1, "1.1"))
    ELSE IF input_text \in {<<"1",".","2">>, <<"1","2">>}
      THEN Goto(sessions, user_id, MENUS.MAIN,
                SubmenuResponse("Practice Tests", MENUS.MENU_1, "1.2"))
    ELSE IF input_text \in {<<"1",".","3">>, <<"1","3">>}
      THEN Goto(sessions, user_id, MENUS.MAIN,
                SubmenuResponse("Study Guides", MENUS.MENU_1, "1.3"))
    ELSE Keep(sessions, get_menu_1)

\* "Handle Menu 1 submenus"
HandleMenu1(sessions, user_id, input_text) ==
    IF input_text \in {<<"1",".","1">>, <<"1","1">>}
      THEN Keep(sessions, SubmenuResponse("Course Materials", MENUS.MENU_1, "1.1"))
    ELSE IF input_text \in {<<"1",".","2">>, <<"1","2">>}
      THEN Keep(sessions, SubmenuResponse("Practice Tests", MENUS.MENU_1, "1.2"))
    ELSE IF input_text \in {<<"1",".","3">>, <<"1","3">>}
      THEN Keep(sessions, SubmenuResponse("Study Guides", MENUS.MENU_1, "1.3"))
    ELSE Keep(sessions, get_menu_1)

\* Fault variant of HandleMenu2: the undotted spelling "22" reports option 2.1.
HandleMenu2_WrongOption(sessions, user_id, input_text) ==
    IF input_text \in {<<"2",".","1">>, <<"2","1">>, <<"2","2">>}
      THEN Keep(sessions, SubmenuResponse("Schedule Session", MENUS.MENU_2, "2.1"))
    ELSE IF input_text \in {<<"2",".","2">>}
      THEN Keep(sessions, SubmenuResponse("Join Live Session", MENUS.MENU_2, "2.2"))
    ELSE IF input_text \in {<<"2",".","3">>, <<"2","3">>}
      THEN Keep(sessions, SubmenuResponse("View Recordings", MENUS.MENU_2, "2.3"))
    ELSE Keep(sessions, get_menu_2)

\* "Handle Menu 2 submenus"
HandleMenu2(sessions, user_id, input_text) ==
    IF input_text \in {<<"2",".","1">>, <<"2","1">>}
      THEN Keep(sessions, SubmenuResponse("Schedule Session", MENUS.MENU_2, "2.1"))
    ELSE IF input_text \in {<<"2",".","2">>, <<"2","2">>}
      THEN Keep(sessions, SubmenuResponse("Join Live Session", MENUS.MENU_2, "2.2"))
    ELSE IF input_text \in {<<"2",".","3">>, <<"2","3">>}
      THEN Keep(sessions, SubmenuResponse("View Recordings", MENUS.MENU_2, "2.3"))
    ELSE Keep(sessions, get_menu_2)

\* Fault variant of HandleMenu3: unrecognized input falls back to the main
\* menu.
HandleMenu3_ElseMain(sessions, user_id, input_text) ==
    IF input_text \in {<<"3",".","1">>, <<"3","1">>}
      THEN Keep(sessions, SubmenuResponse("Contact Admin", MENUS.MENU_3, "3.1"))
    ELSE IF input_text \in {<<"3",".","2">>, <<"3","2">>}
      THEN Keep(sessions, SubmenuResponse("FAQ", MENUS.MENU_3, "3.2"))
    ELSE IF input_text \in {<<"3",".","3">>, <<"3","3">>}
      THEN Keep(sessions, SubmenuResponse("Technical Support", MENUS.MENU_3, "3.3"))
    ELSE Goto(sessions, user_id, MENUS.MAIN, get_main_menu)

\* "Handle Menu 3 submenus"
HandleMenu3(sessions, user_id, input_text) ==
    IF input_text \in {<<"3",".","1">>, <<"3","1">>}
      THEN Keep(sessions, SubmenuResponse("Contact Admin", MENUS.MENU_3, "3.1"))
    ELSE IF input_text \in {<<"3",".","2">>, <<"3","2">>}
      THEN Keep(sessions, SubmenuResponse("FAQ", MENUS.MENU_3, "3.2"))
    ELSE IF input_text \in {<<"3",".","3">>, <<"3","3">>}
      THEN Keep(sessions, SubmenuResponse("Technical Support", MENUS.MENU_3, "3.3"))
    ELSE Keep(sessions, get_menu_3)

\* handle_user_input after its first two statements: input_text and
\* current_menu are the locals it has computed, `sessions` is the session
\* dict at the time the branch runs
HandleFrom(sessions, user_id, input_text, current_menu) ==
    IF input_text \in BackTokens THEN HandleBack(sessions, user_id)
    ELSE IF current_menu = MENUS.MAIN THEN HandleMain(sessions, user_id, input_text)
    ELSE IF current_menu = MENUS.MENU_1 THEN HandleMenu1(sessions, user_id, input_text)
    ELSE IF current_menu = MENUS.MENU_2 THEN HandleMenu2(sessions, user_id, input_text)
    ELSE IF current_menu = MENUS.MENU_3 THEN HandleMenu3(sessions, user_id, input_text)
    ELSE Keep(sessions, get_main_menu)

\* handle_user_input(user_id, message) on the session dict `sessions`, run
\* without interruption
handle_user_input(sessions, user_id, message) ==
    HandleFrom(sessions, user_id, Strip(Lower(message)),
               DictGet(sessions, user_id, MENUS.MAIN))

\* Fault variant of reset_user_session: the whole session dict is cleared
\* (user_sessions.clear() instead of del user_sessions[user_id]).
reset_user_session_ClearsAll(sessions, user_id) ==
    IF user_id \in DOMAIN sessions THEN <<>> ELSE sessions

\* reset_user_session(user_id) on the session dict `sessions`
reset_user_session(sessions, user_id) ==
    IF user_id \in DOMAIN sessions THEN DictDel(sessions, user_id) ELSE sessions

----------------------------------------------------------------------------
(* GoogleSheetsService.is_user_authorized and check_authorization *)

\* len(clean_auth) < 10 : entries with fewer digits are skipped
MinAuthDigits == 10

\* The answer of spreadsheets().values().get(...).execute():
\*   [kind |-> "values", values |-> rows]  the call returned; rows is
\*                                         result.get('values', [])
\*   [kind |-> "HttpError"]                the call raised HttpError
\*   [kind |-> "Exception"]                the call (or the handling of its
\*                                         answer) raised another exception
\* NoSheetRead stands for "the API was not called".
NoSheetRead == [kind |-> "not_called"]

\* authorized_numbers: the stripped first cells that hold at least one digit
AuthorizedNumbers(values) ==
    LET Usable(row) == /\ row # <<>>
                       /\ row[1] # <<>>
                       /\ \E i \in 1..Len(Strip(row[1])) : IsDigit(Strip(row[1])[i])
        usable == SelectSeq(values, Usable)
    IN  [i \in 1..Len(usable) |-> Strip(usable[i][1])]

\* Fault variant of AuthNumMatches: entries with fewer than 10 digits are not
\* skipped.
AuthNumMatches_NoMinimum(auth_num, clean_number) ==
    LET clean_auth == DigitsOf(auth_num)
    IN  /\ clean_auth # <<>>
        /\ \/ clean_auth = clean_number
           \/ EndsWith(clean_auth, clean_number)
           \/ EndsWith(clean_number, clean_auth)

\* the comparison made for one entry of authorized_numbers
AuthNumMatches(auth_num, clean_number) ==
    LET clean_auth == DigitsOf(auth_num)
    IN  /\ ~(clean_auth = <<>> \/ Len(clean_auth) < MinAuthDigits)
        /\ \/ clean_auth = clean_number
           \/ EndsWith(clean_auth, clean_number)
           \/ EndsWith(clean_number, clean_auth)

\* Fault variant of is_user_authorized: a lookup that raises lets the user in.
is_user_authorized_FailOpen(phone_number, initialized, api) ==
    IF ~initialized
      THEN [result |-> FALSE, sheet_result |-> NoSheetRead]
    ELSE IF api.kind # "values"
      THEN [result |-> TRUE, sheet_result |-> api]
    ELSE LET authorized_numbers == AuthorizedNumbers(api.values)
             clean_number == DigitsOf(phone_number)
         IN  [result |-> \E i \in 1..Len(authorized_numbers) :
                             AuthNumMatches(authorized_numbers[i], clean_number),
              sheet_result |-> api]

\* is_user_authorized(phone_number) of a service whose `initialized` flag is
\* `initialized` and whose API would answer `api`.
is_user_authorized(phone_number, initialized, api) ==
    IF ~initialized
      THEN [result |-> FALSE, sheet_result |-> NoSheetRead]
    ELSE IF api.kind # "values"
      THEN [result |-> FALSE, sheet_result |-> api]
    ELSE LET authorized_numbers == AuthorizedNumbers(api.values)
             clean_number == DigitsOf(phone_number)
         IN  [result |-> \E i \in 1..Len(authorized_numbers) :
                             AuthNumMatches(authorized_numbers[i], clean_number),
              sheet_result |-> api]

\* Fault variant of check_authorization: the sheet is looked up first and
\* testing mode only overrides its verdict.
check_authorization_SheetFirst(phone_number, testing, initialized, api) ==
    LET r == is_user_authorized(phone_number, initialized, api)
    IN  [result |-> r.result \/ testing, sheets_calls |-> 1,
         sheet_result |-> r.sheet_result]

\* check_authorization(phone_number) under Config.TESTING_MODE = testing
check_authorization(phone_number, testing, initialized, api) ==
    IF testing
      THEN [result |-> TRUE, sheets_calls |-> 0, sheet_result |-> NoSheetRead]
    ELSE LET r == is_user_authorized(phone_number, initialized, api)
         IN  [result |-> r.result, sheets_calls |-> 1, sheet_result |-> r.sheet_result]

----------------------------------------------------------------------------
(* GoogleDriveService.get_user_folder_files *)

\* The answer of the two files().list(...).execute() calls:
\*   [kind |-> "files", files |-> seq]  the user's folder exists, seq lists it
\*   [kind |-> "no_folder"]             no folder is named after the number
\*   [kind |-> "HttpError"], [kind |-> "Exception"]   a call raised
\* NoDriveRead stands for "the API was not called".
NoDriveRead == [kind |-> "not_called"]

\* a or b, on strings and None
PyOr(a, b) == IF a # None /\ a # "" THEN a ELSE b

get_user_folder_files(phone_number, initialized, api) ==
    IF ~initialized THEN <<>>
    ELSE IF api.kind # "files" THEN <<>>
    ELSE [i \in 1..Len(api.files) |->
            [id |-> api.files[i].id,
             name |-> api.files[i].name,
             link |-> PyOr(api.files[i].webViewLink, api.files[i].webContentLink),
             mimeType |-> api.files[i].mimeType]]

----------------------------------------------------------------------------
(* webhook_receive: POST /webhook *)

RejectionText == <<"Unauthorized Access: your number is not registered in our system. Please contact the administrator to get access.">>
NoFilesText == <<"No files found in your folder. Please contact admin or type *back* to return to menu.">>
FilesHeader == "Here are your files:"
FilesFooter == "Type *back* to return to the menu."

\* Fault variant of FileEntries: the entries are numbered from 0
\* (enumerate(files) without the start index).
RECURSIVE FileEntries_ZeroBased(_, _)
FileEntries_ZeroBased(files, idx) ==
    IF idx > Len(files) THEN <<>>
    ELSE <<ToString(idx - 1), ". ", files[idx].name, "\n", files[idx].link, "\n\n">>
         \o FileEntries_ZeroBased(files, idx + 1)

\* f'{idx}. {file["name"]}\n{file["link"]}\n\n' for the files from index idx on
RECURSIVE FileEntries(_, _)
FileEntries(files, idx) ==
    IF idx > Len(files) THEN <<>>
    ELSE <<ToString(idx), ". ", files[idx].name, "\n", files[idx].link, "\n\n">>
         \o FileEntries(files, idx + 1)

\* file_message
FileMessage(files) == <<FilesHeader>> \o FileEntries(files, 1) \o <<FilesFooter>>

NoMenuResponse == [called |-> FALSE]

OkResponse == [body |-> "OK", status |-> 200]
ErrorResponse == [body |-> "Internal Server Error", status |-> 500]
NoResponse == [body |-> None, status |-> 0]

\* menu_response.get('isSubmenu')
IsSubmenu(resp) == "isSubmenu" \in DOMAIN resp /\ resp.isSubmenu

\* Outcomes of one WhatsAppService.send_message call:
\*   "ok"                the API accepted the message
\*   "RequestException"  caught inside send_message, which returns None
\*   "Exception"         any other exception, which send_message lets through
SendOutcomes == {"ok", "RequestException", "Exception"}

\* Fault variant of RejectUnauthorized: the rejection is sent but the handler
\* does not return, so the menu is processed for the rejected sender.
RejectUnauthorized_FallsThrough(from_number, message_text, drive_api, send_outcome) ==
    LET handled == handle_user_input(user_sessions, from_number, message_text)
    IN  /\ sent' = <<[to |-> from_number, body |-> RejectionText],
                     [to |-> from_number, body |-> handled.response.text]>>
        /\ http_response' = OkResponse
        /\ menu_response' = handled.response
        /\ drive_calls' = 0
        /\ drive_result' = NoDriveRead
        /\ user_sessions' = handled.sessions

\* The branch taken for a sender that check_authorization turned down: the
\* rejection text is sent inside try/except, so no outcome of the send
\* changes the response.
RejectUnauthorized(from_number, message_text, drive_api, send_outcome) ==
    /\ sent' = <<[to |-> from_number, body |-> RejectionText]>>
    /\ http_response' = OkResponse
    /\ menu_response' = NoMenuResponse
    /\ drive_calls' = 0
    /\ drive_result' = NoDriveRead
    /\ user_sessions' = user_sessions

\* Fault variant of ProcessMenu: the text of the returned dict is always
\* sent, and for a submenu choice the file listing follows as a second
\* message.
ProcessMenu_AlsoSendsText(from_number, message_text, drive_api, send_outcome) ==
    LET handled == handle_user_input(user_sessions, from_number, message_text)
        menu_resp == handled.response
        files == get_user_folder_files(from_number, drive_initialized, drive_api)
    IN  /\ user_sessions' = handled.sessions
        /\ menu_response' = menu_resp
        /\ IF IsSubmenu(menu_resp)
             THEN /\ drive_calls' = 1
                  /\ drive_result' = IF drive_initialized THEN drive_api ELSE NoDriveRead
                  /\ sent' = <<[to |-> from_number, body |-> menu_resp.text],
                               [to |-> from_number,
                                body |-> IF files # <<>> THEN FileMessage(files)
                                                         ELSE NoFilesText]>>
             ELSE /\ drive_calls' = 0
                  /\ drive_result' = NoDriveRead
                  /\ sent' = <<[to |-> from_number, body |-> menu_resp.text]>>
        /\ http_response' = IF send_outcome = "Exception" THEN ErrorResponse ELSE OkResponse

\* The rest of the handler for an authorized sender: menu navigation, then
\* the file listing for a submenu choice or the menu text otherwise.  A send
\* that raises ends the handler in its outer except clause.
ProcessMenu(from_number, message_text, drive_api, send_outcome) ==
    LET handled == handle_user_input(user_sessions, from_number, message_text)
        menu_resp == handled.response
        files == get_user_folder_files(from_number, drive_initialized, drive_api)
    IN  /\ user_sessions' = handled.sessions
        /\ menu_response' = menu_resp
        /\ IF IsSubmenu(menu_resp)
             THEN /\ drive_calls' = 1
                  /\ drive_result' = IF drive_initialized THEN drive_api ELSE NoDriveRead
                  /\ sent' = IF files # <<>>
                               THEN <<[to |-> from_number, body |-> FileMessage(files)]>>
                               ELSE <<[to |-> from_number, body |-> NoFilesText]>>
             ELSE /\ drive_calls' = 0
                  /\ drive_result' = NoDriveRead
                  /\ sent' = <<[to |-> from_number, body |-> menu_resp.text]>>
        /\ http_response' = IF send_outcome = "Exception" THEN ErrorResponse ELSE OkResponse

\* Outcomes of one WhatsAppService.mark_as_read call: "ok" (True) or
\* "RequestException" (caught inside mark_as_read, which returns False).
MarkOutcomes == {"ok", "RequestException"}

\* One entry of the call log
Call(name, outcome) == [call |-> name, outcome |-> outcome]

\* The calls of the not-authorized branch
RejectCalls(send_outcome) == <<Call("send_message", send_outcome)>>

\* The calls of the authorized branch, in the order of the code
MenuCalls(menu_resp, send_outcome) ==
    <<Call("handle_user_input", "returned")>>
    \o (IF IsSubmenu(menu_resp)
          THEN <<Call("get_user_folder_files", "returned")>> ELSE <<>>)
    \o <<Call("send_message", send_outcome)>>

\* Fault variant of handle_message: the message is marked as read only after
\* the sender has passed the authorization check.
handle_message_MarkAfterAuth(message, mark_outcome, sheet_api, drive_api, send_outcome) ==
    LET from_number == message.from
        message_id == message.id
        message_text == message.text
        auth == check_authorization(from_number, TESTING_MODE, sheets_initialized, sheet_api)
        menu_resp == handle_user_input(user_sessions, from_number, message_text).response
    IN  /\ request' = [endpoint |-> "POST /webhook", from |-> from_number,
                       id |-> message_id, text |-> message_text]
        /\ prev_sessions' = user_sessions
        /\ marked' = IF auth.result THEN <<message_id>> ELSE <<>>
        /\ is_authorized' = auth.result
        /\ sheets_calls' = auth.sheets_calls
        /\ sheet_result' = auth.sheet_result
        /\ calls' = <<Call("check_authorization", IF auth.result THEN "True" ELSE "False")>>
                    \o (IF ~auth.result THEN RejectCalls(send_outcome)
                          ELSE <<Call("mark_as_read", mark_outcome)>>
                               \o MenuCalls(menu_resp, send_outcome))
        /\ IF ~auth.result
             THEN RejectUnauthorized(from_number, message_text, drive_api, send_outcome)
             ELSE ProcessMenu(from_number, message_text, drive_api, send_outcome)

\* The part of webhook_receive that handles the first message `message`
\* (from, id, text body) of a payload, with the answers the collaborators
\* give.  The result of mark_as_read (True or False) is discarded.
handle_message(message, mark_outcome, sheet_api, drive_api, send_outcome) ==
    LET from_number == message.from
        message_id == message.id
        message_text == message.text
        auth == check_authorization(from_number, TESTING_MODE, sheets_initialized, sheet_api)
        menu_resp == handle_user_input(user_sessions, from_number, message_text).response
    IN  /\ request' = [endpoint |-> "POST /webhook", from |-> from_number,
                       id |-> message_id, text |-> message_text]
        /\ prev_sessions' = user_sessions
        /\ marked' = <<message_id>>
        /\ is_authorized' = auth.result
        /\ sheets_calls' = auth.sheets_calls
        /\ sheet_result' = auth.sheet_result
        /\ calls' = <<Call("mark_as_read", mark_outcome),
                      Call("check_authorization", IF auth.result THEN "True" ELSE "False")>>
                    \o (IF ~auth.result THEN RejectCalls(send_outcome)
                                        ELSE MenuCalls(menu_resp, send_outcome))
        /\ IF ~auth.result
             THEN RejectUnauthorized(from_number, message_text, drive_api, send_outcome)
             ELSE ProcessMenu(from_number, message_text, drive_api, send_outcome)

\* dict.get on a JSON object; {} and [] are both the empty function
EmptyJson == <<>>

\* "Extract message data": the messages list of the payload, or the fact that
\* indexing an empty list raised IndexError.
ExtractMessages(data) ==
    LET entries == DictGet(data, "entry", <<EmptyJson>>)
    IN  IF entries = <<>> THEN [raised |-> TRUE, messages |-> <<>>]
        ELSE LET entry == entries[1]
                 changes_list == DictGet(entry, "changes", <<EmptyJson>>)
             IN  IF changes_list = <<>> THEN [raised |-> TRUE, messages |-> <<>>]
                 ELSE LET changes == changes_list[1]
                          value == DictGet(changes, "value", EmptyJson)
                      IN  [raised |-> FALSE,
                           messages |-> DictGet(value, "messages", <<>>)]

\* What a request that reaches no collaborator leaves behind
NothingCalled ==
    /\ prev_sessions' = user_sessions
    /\ marked' = <<>>
    /\ is_authorized' = FALSE
    /\ sheets_calls' = 0
    /\ sheet_result' = NoSheetRead
    /\ menu_response' = NoMenuResponse
    /\ drive_calls' = 0
    /\ drive_result' = NoDriveRead
    /\ sent' = <<>>
    /\ calls' = <<>>

\* Fault variant of webhook_receive: the last message of the payload is
\* handled instead of the first (messages[-1]).
webhook_receive_LastMessage(data, mark_outcome, sheet_api, drive_api, send_outcome) ==
    LET extracted == ExtractMessages(data)
        messages == extracted.messages
    IN  /\ payload' = data
        /\ IF extracted.raised
             THEN /\ request' = [endpoint |-> "POST /webhook"]
                  /\ NothingCalled
                  /\ user_sessions' = user_sessions
                  /\ http_response' = ErrorResponse
           ELSE IF messages = <<>>
             THEN /\ request' = [endpoint |-> "POST /webhook"]
                  /\ NothingCalled
                  /\ user_sessions' = user_sessions
                  /\ http_response' = OkResponse
           ELSE handle_message(messages[Len(messages)], mark_outcome, sheet_api,
                               drive_api, send_outcome)
        /\ UNCHANGED <<config, threads>>

\* webhook_receive for the JSON body `data`
webhook_receive(data, mark_outcome, sheet_api, drive_api, send_outcome) ==
    LET extracted == ExtractMessages(data)
        messages == extracted.messages
    IN  /\ payload' = data
        /\ IF extracted.raised
             THEN /\ request' = [endpoint |-> "POST /webhook"]
                  /\ NothingCalled
                  /\ user_sessions' = user_sessions
                  /\ http_response' = ErrorResponse
           ELSE IF messages = <<>>
             THEN /\ request' = [endpoint |-> "POST /webhook"]
                  /\ NothingCalled
                  /\ user_sessions' = user_sessions
                  /\ http_response' = OkResponse
           ELSE handle_message(messages[1], mark_outcome, sheet_api, drive_api, send_outcome)
        /\ UNCHANGED <<config, threads>>

----------------------------------------------------------------------------
(* Inputs *)

\* Most rows a sheet read returns, most files a folder listing returns.
MaxRows == 2
MaxFiles == 2

\* Sender identifiers (message['from'])
PhoneFull == <<"1","5","5","5","0","0","0","1","2","3","4">>
PhoneOther == <<"1","9","9","9","8","8","8","7","7","7","7">>
Senders == {PhoneFull, PhoneOther}

\* Candidate phone numbers for check_authorization
PhoneFormatted == <<"+","1"," ","5","5","5","-","0","0","0","-","1","2","3","4">>
PhoneLocal == <<"5","5","5","0","0","0","1","2","3","4">>
PhoneShort == <<"1","2","3","4">>
PhoneNoDigit == <<"n","/","a">>
PhoneEmpty == <<>>
Phones == {PhoneFull, PhoneOther, PhoneFormatted, PhoneLocal, PhoneShort,
           PhoneNoDigit, PhoneEmpty}

\* First-column cells of the sheet
CellLocal == <<"5","5","5","0","0","0","1","2","3","4">>
CellIntl == <<" ","+","1"," ","(","5","5","5",")"," ","0","0","0","-","1","2","3","4">>
CellNineDigits == <<"5","5","0","0","0","1","2","3","4">>
CellShort == <<"1","2","3","4">>
CellHeader == <<"P","h","o","n","e">>
CellEmpty == <<>>
Rows == {<<CellLocal>>, <<CellIntl>>, <<CellNineDigits>>, <<CellShort>>,
         <<CellHeader>>, <<CellEmpty>>, <<>>}

RECURSIVE SeqsUpTo(_, _)
SeqsUpTo(S, n) ==
    IF n = 0 THEN {<<>>}
    ELSE LET shorter == SeqsUpTo(S, n - 1)
         IN  shorter \cup {Append(q, x) : q \in shorter, x \in S}

SheetFailures == {[kind |-> "HttpError"], [kind |-> "Exception"]}

\* Answers of the Sheets API
SheetAnswers ==
    {[kind |-> "values", values |-> v] : v \in SeqsUpTo(Rows, MaxRows)} \cup SheetFailures

\* The answers of the Sheets API used when whole deliveries are explored
DeliverySheetAnswers ==
    {[kind |-> "values", values |-> <<<<CellHeader>>, <<CellLocal>>>>],
     [kind |-> "HttpError"]}

DriveFiles ==
    {[id |-> "f1", name |-> "notes.pdf", mimeType |-> "application/pdf",
      webViewLink |-> "https://drive/view/f1", webContentLink |-> "https://drive/dl/f1"],
     [id |-> "f2", name |-> "exam.zip", mimeType |-> "application/zip",
      webViewLink |-> None, webContentLink |-> "https://drive/dl/f2"]}

\* Answers of the Drive API
DriveAnswers ==
    {[kind |-> "files", files |-> f] : f \in SeqsUpTo(DriveFiles, MaxFiles)}
    \cup {[kind |-> "no_folder"], [kind |-> "HttpError"], [kind |-> "Exception"]}

\* The Drive answers used when sequences of deliveries are explored
SessionDriveAnswers ==
    {[kind |-> "files", files |-> <<CHOOSE f \in DriveFiles : f.webViewLink # None>>],
     [kind |-> "no_folder"]}

\* The send_message outcomes used when sequences of deliveries are explored
SessionSendOutcomes == {"ok", "Exception"}

\* Values of Config.VERIFY_TOKEN: a configured secret, or None when the
\* environment variable is not set
\* (strings of the handshake are sequences of characters; NoneStr is Python's
\* None where a str is expected)
NoneStr == <<None>>
ConfiguredSecret == <<"s", "3", "c">>
VerifyTokens == {ConfiguredSecret, NoneStr}

\* Query parameters of the handshake call: request.args.get gives None for a
\* parameter that is absent
Subscribe == <<"s","u","b","s","c","r","i","b","e">>
Modes == {Subscribe, <<"u","n","s","u","b","s","c","r","i","b","e">>, NoneStr}
SuppliedTokens == {ConfiguredSecret, <<"s", "3">>, <<"w", "r", "o", "n", "g">>, NoneStr}
Challenges == {<<"1", "2", "3">>, <<"4", "2">>}

MessageIds == {"wamid.1"}

\* Message texts (message['text']['body'])
LeafDotted ==
    {<<"1",".","1">>, <<"1",".","2">>, <<"1",".","3">>,
     <<"2",".","1">>, <<"2",".","2">>, <<"2",".","3">>,
     <<"3",".","1">>, <<"3",".","2">>, <<"3",".","3">>}
LeafUndotted ==
    {<<"1","1">>, <<"1","2">>, <<"1","3">>,
     <<"2","1">>, <<"2","2">>, <<"2","3">>,
     <<"3","1">>, <<"3","2">>, <<"3","3">>}
Texts ==
    BackTokens \cup {<<"1">>, <<"2">>, <<"3">>} \cup LeafDotted \cup LeafUndotted
    \cup {<<>>, <<"h","i">>, <<"1",".","4">>,
          <<" ","B","a","c","K"," ">>, <<" ","1"," ">>, <<"\t","2",".","2"," ">>}

\* The message texts used when sequences of deliveries are explored: every
\* kind of token, enough to reach every menu from every menu.
SessionTexts ==
    {<<"b","a","c","k">>, <<"1">>, <<"2">>, <<"3">>, <<"1",".","1">>,
     <<"2","2">>, <<"3",".","3">>, <<"h","i">>, <<" ","B","a","c","K"," ">>}

\* Every content user_sessions can have (see SessionsValid)
SessionStores ==
    UNION {[keys -> MenuValues] : keys \in SUBSET Senders}

----------------------------------------------------------------------------
(* The system *)

\* Nothing has been handled yet
NoRequestYet ==
    /\ request = [endpoint |-> "none"]
    /\ payload = EmptyJson
    /\ marked = <<>>
    /\ is_authorized = FALSE
    /\ sheets_calls = 0
    /\ sheet_result = NoSheetRead
    /\ menu_response = NoMenuResponse
    /\ drive_calls = 0
    /\ drive_result = NoDriveRead
    /\ sent = <<>>
    /\ calls = <<>>
    /\ http_response = NoResponse
    /\ threads = <<>>

Init ==
    /\ user_sessions = <<>>
    /\ prev_sessions = <<>>
    /\ TESTING_MODE \in BOOLEAN
    /\ sheets_initialized \in BOOLEAN
    /\ drive_initialized \in BOOLEAN
    /\ VERIFY_TOKEN = ConfiguredSecret
    /\ NoRequestYet

\* The payload of a delivery that carries the messages `messages`
MessagePayload(messages) ==
    [object |-> "whatsapp_business_account",
     entry |-> <<[changes |-> <<[value |-> [messages |-> messages]]>>]>>]

\* A delivery carrying one message whose text is drawn from `texts`, with the
\* outcomes of the WhatsApp calls and the Drive answers drawn from the given
\* sets.  A collaborator's answer is drawn only when the handler reaches the
\* call that asks for it.
\* `tails` are the messages that may follow it in the payload.
DeliverPayload(texts, mark_outcomes, send_outcomes, drive_answers, tails) ==
    \E from_number \in Senders, message_id \in MessageIds, text \in texts,
       mark_outcome \in mark_outcomes, send_outcome \in send_outcomes,
       tail \in tails :
      \E sheet_api \in IF TESTING_MODE \/ ~sheets_initialized
                         THEN {NoSheetRead} ELSE DeliverySheetAnswers :
        \E drive_api \in IF /\ drive_initialized
                            /\ check_authorization(from_number, TESTING_MODE,
                                                   sheets_initialized, sheet_api).result
                            /\ IsSubmenu(handle_user_input(user_sessions, from_number,
                                                           text).response)
                           THEN drive_answers ELSE {NoDriveRead} :
          webhook_receive(MessagePayload(<<[from |-> from_number, id |-> message_id,
                                            text |-> text]>> \o tail),
                          mark_outcome, sheet_api, drive_api, send_outcome)

\* A delivery carrying exactly one message
DeliverMessage(texts, mark_outcomes, send_outcomes, drive_answers) ==
    DeliverPayload(texts, mark_outcomes, send_outcomes, drive_answers, {<<>>})

\* A delivery in a running server
Deliver == DeliverMessage(SessionTexts, {"ok"}, SessionSendOutcomes, SessionDriveAnswers)

\* menu_system.reset_user_session(user_id)
ResetUserSession ==
    \E user_id \in Senders :
        /\ user_sessions' = reset_user_session(user_sessions, user_id)
        /\ request' = [endpoint |-> "reset_user_session", from |-> user_id]
        /\ payload' = EmptyJson
        /\ NothingCalled
        /\ http_response' = NoResponse
        /\ UNCHANGED <<config, threads>>

Next == Deliver \/ ResetUserSession

Spec == Init /\ [][Next]_vars

\* One delivery, from every content of the session store: the initial state
\* draws the configuration and the session store, DeliverOnce handles one
\* message with any text.  A server that authorizes nobody (testing mode off,
\* sheet service not initialized) never gets a session entry.  The handler
\* does not read VERIFY_TOKEN.
InitDelivery ==
    /\ TESTING_MODE \in BOOLEAN
    /\ sheets_initialized \in BOOLEAN
    /\ drive_initialized \in BOOLEAN
    /\ VERIFY_TOKEN = ConfiguredSecret
    /\ user_sessions \in SessionStores
    /\ (~TESTING_MODE /\ ~sheets_initialized) => user_sessions = <<>>
    /\ prev_sessions = user_sessions
    /\ NoRequestYet

DeliverOnce ==
    /\ request.endpoint = "none"
    /\ DeliverMessage(Texts, MarkOutcomes, SendOutcomes, DriveAnswers)

NextDelivery == DeliverOnce

SpecDelivery == InitDelivery /\ [][NextDelivery]_vars

\* check_authorization as a function: the initial state draws the candidate
\* number and the answer of the Sheets API, CheckAuthorization applies it.
InitAuth ==
    /\ user_sessions = <<>>
    /\ prev_sessions = <<>>
    /\ TESTING_MODE \in BOOLEAN
    /\ sheets_initialized \in BOOLEAN
    /\ drive_initialized \in BOOLEAN
    /\ VERIFY_TOKEN = ConfiguredSecret
    /\ \E phone_number \in Phones, sheet_api \in SheetAnswers :
          request = [endpoint |-> "pending", from |-> phone_number, sheet |-> sheet_api]
    /\ payload = EmptyJson
    /\ marked = <<>>
    /\ is_authorized = FALSE
    /\ sheets_calls = 0
    /\ sheet_result = NoSheetRead
    /\ menu_response = NoMenuResponse
    /\ drive_calls = 0
    /\ drive_result = NoDriveRead
    /\ sent = <<>>
    /\ calls = <<>>
    /\ http_response = NoResponse
    /\ threads = <<>>

CheckAuthorization ==
    /\ request.endpoint = "pending"
    /\ LET auth == check_authorization(request.from, TESTING_MODE,
                                       sheets_initialized, request.sheet)
       IN  /\ request' = [request EXCEPT !.endpoint = "check_authorization"]
           /\ is_authorized' = auth.result
           /\ sheets_calls' = auth.sheets_calls
           /\ sheet_result' = auth.sheet_result
    /\ UNCHANGED <<user_sessions, config, prev_sessions, marked, menu_response,
                   drive_calls, sent, http_response, payload, calls, drive_result,
                   threads>>

NextAuth == CheckAuthorization

SpecAuth == InitAuth /\ [][NextAuth]_vars


\* The delivery payloads that carry no message, by name
NoMessageShapes ==
    {"no_entry_key", "entry_empty", "entry_no_changes", "changes_empty",
     "change_no_value", "value_no_messages", "messages_empty"}

StatusUpdate == [statuses |-> <<[id |-> "wamid.1", status |-> "delivered"]>>]

PayloadOf(shape) ==
    CASE shape = "no_entry_key"      -> [object |-> "whatsapp_business_account"]
      [] shape = "entry_empty"       -> [object |-> "whatsapp_business_account",
                                         entry |-> <<>>]
      [] shape = "entry_no_changes"  -> [object |-> "whatsapp_business_account",
                                         entry |-> <<[id |-> "0"]>>]
      [] shape = "changes_empty"     -> [object |-> "whatsapp_business_account",
                                         entry |-> <<[id |-> "0", changes |-> <<>>]>>]
      [] shape = "change_no_value"   -> [object |-> "whatsapp_business_account",
                                         entry |-> <<[changes |-> <<[field |-> "messages"]>>]>>]
      [] shape = "value_no_messages" -> [object |-> "whatsapp_business_account",
                                         entry |-> <<[changes |-> <<[value |-> StatusUpdate]>>]>>]
      [] shape = "messages_empty"    -> MessagePayload(<<>>)

\* One POST /webhook, from every content of the session store: a payload
\* without messages, or a payload with one message.
PostNoMessage ==
    /\ request.endpoint = "none"
    /\ \E shape \in NoMessageShapes :
          webhook_receive(PayloadOf(shape), "ok", NoSheetRead, NoDriveRead, "ok")

PostMessage ==
    /\ request.endpoint = "none"
    /\ DeliverMessage(SessionTexts, MarkOutcomes, SendOutcomes, DriveAnswers)

\* The messages that follow the first one in a payload with several
\* messages: other ids, from either sender
FollowingMessages ==
    {[from |-> user_id, id |-> "wamid.2", text |-> text] :
        user_id \in Senders, text \in {<<"b","a","c","k">>, <<"2">>}}

MaxFollowing == 2

PostSeveral ==
    /\ request.endpoint = "none"
    /\ DeliverPayload({<<"1">>, <<"1",".","1">>, <<"h","i">>}, {"ok"}, SessionSendOutcomes,
                      SessionDriveAnswers,
                      SeqsUpTo(FollowingMessages, MaxFollowing) \ {<<>>})

NextPost == PostNoMessage \/ PostMessage \/ PostSeveral

SpecPost == InitDelivery /\ [][NextPost]_vars


ForbiddenBody == <<"F","o","r","b","i","d","d","e","n">>

\* webhook_verify: the response for the query parameters hub.mode,
\* hub.verify_token and hub.challenge, with Config.VERIFY_TOKEN = secret
webhook_verify(mode, token, challenge, secret) ==
    IF mode = Subscribe /\ token = secret
      THEN [body |-> challenge, status |-> 200]
      ELSE [body |-> ForbiddenBody, status |-> 403]

\* GET /webhook
WebhookVerify ==
    \E mode \in Modes, token \in SuppliedTokens, challenge \in Challenges :
        /\ request' = [endpoint |-> "GET /webhook", mode |-> mode, token |-> token,
                       challenge |-> challenge]
        /\ http_response' = webhook_verify(mode, token, challenge, VERIFY_TOKEN)
        /\ payload' = EmptyJson
        /\ NothingCalled
        /\ UNCHANGED <<user_sessions, config, threads>>

\* One handshake call, under every configuration
InitVerify ==
    /\ user_sessions = <<>>
    /\ prev_sessions = <<>>
    /\ TESTING_MODE \in BOOLEAN
    /\ sheets_initialized \in BOOLEAN
    /\ drive_initialized \in BOOLEAN
    /\ VERIFY_TOKEN \in VerifyTokens
    /\ NoRequestYet

VerifyOnce ==
    /\ request.endpoint = "none"
    /\ WebhookVerify

NextVerify == VerifyOnce

SpecVerify == InitVerify /\ [][NextVerify]_vars


\* Stored states outside MENUS (the session dict is written only with values
\* of MENUS, so only a store filled from outside holds one)
UnknownStates == {"menu4", "MAIN", ""}

\* handle_user_input as a function of the session dict: the initial state
\* draws a session dict in which one sender has an unknown state, and the
\* message; HandleUserInput applies it.
InitFallback ==
    /\ TESTING_MODE \in BOOLEAN
    /\ sheets_initialized \in BOOLEAN
    /\ drive_initialized \in BOOLEAN
    /\ VERIFY_TOKEN = ConfiguredSecret
    /\ \E user_id \in Senders, stored \in UnknownStates, text \in Texts :
          /\ \E others \in SessionStores : user_sessions = DictSet(others, user_id, stored)
          /\ request = [endpoint |-> "pending_input", from |-> user_id, text |-> text]
    /\ prev_sessions = user_sessions
    /\ payload = EmptyJson
    /\ marked = <<>>
    /\ is_authorized = FALSE
    /\ sheets_calls = 0
    /\ sheet_result = NoSheetRead
    /\ menu_response = NoMenuResponse
    /\ drive_calls = 0
    /\ drive_result = NoDriveRead
    /\ sent = <<>>
    /\ calls = <<>>
    /\ http_response = NoResponse
    /\ threads = <<>>

HandleUserInput ==
    /\ request.endpoint = "pending_input"
    /\ LET handled == handle_user_input(user_sessions, request.from, request.text)
       IN  /\ request' = [request EXCEPT !.endpoint = "handle_user_input"]
           /\ prev_sessions' = user_sessions
           /\ user_sessions' = handled.sessions
           /\ menu_response' = handled.response
    /\ UNCHANGED <<config, marked, is_authorized, sheets_calls, sheet_result,
                   drive_calls, drive_result, sent, calls, http_response, payload,
                   threads>>

NextFallback == HandleUserInput

SpecFallback == InitFallback /\ [][NextFallback]_vars


\* GET / : health_check
HealthResponse == [body |-> "running", status |-> 200]

HealthCheck ==
    /\ request' = [endpoint |-> "GET /"]
    /\ http_response' = HealthResponse
    /\ payload' = EmptyJson
    /\ NothingCalled
    /\ UNCHANGED <<user_sessions, config, threads>>

\* POST /send-test with the JSON body `data`: to and message are required (a
\* missing one is the empty string here); the status follows the result of
\* send_message.
send_test_message(data, send_outcome) ==
    IF data.to = <<>> \/ data.message = <<>>
      THEN [sent |-> <<>>, response |-> [body |-> "Missing to or message", status |-> 400]]
    ELSE [sent |-> <<[to |-> data.to, body |-> data.message]>>,
          response |-> IF send_outcome = "ok"
                         THEN [body |-> "Message sent successfully", status |-> 200]
                       ELSE IF send_outcome = "RequestException"
                         THEN [body |-> "Failed to send message", status |-> 500]
                       ELSE [body |-> "error", status |-> 500]]

SendTestMessage ==
    \E to \in Senders \cup {<<>>}, message \in {<<"hello">>, <<>>},
       send_outcome \in SendOutcomes :
        LET data == [to |-> to, message |-> message]
            result == send_test_message(data, send_outcome)
        IN  /\ request' = [endpoint |-> "POST /send-test", from |-> to]
            /\ payload' = data
            /\ prev_sessions' = user_sessions
            /\ marked' = <<>>
            /\ is_authorized' = FALSE
            /\ sheets_calls' = 0
            /\ sheet_result' = NoSheetRead
            /\ menu_response' = NoMenuResponse
            /\ drive_calls' = 0
            /\ drive_result' = NoDriveRead
            /\ sent' = result.sent
            /\ calls' = IF result.sent = <<>> THEN <<>>
                        ELSE <<Call("send_message", send_outcome)>>
            /\ http_response' = result.response
            /\ UNCHANGED <<user_sessions, config, threads>>

\* One request of any kind, from every content of the session store and
\* under every configuration
InitRequest ==
    /\ TESTING_MODE \in BOOLEAN
    /\ sheets_initialized \in BOOLEAN
    /\ drive_initialized \in BOOLEAN
    /\ VERIFY_TOKEN \in VerifyTokens
    /\ user_sessions \in SessionStores
    /\ (~TESTING_MODE /\ ~sheets_initialized) => user_sessions = <<>>
    /\ prev_sessions = user_sessions
    /\ NoRequestYet

HealthCheckOnce == request.endpoint = "none" /\ HealthCheck
SendTestOnce == request.endpoint = "none" /\ SendTestMessage
ResetOnce == request.endpoint = "none" /\ ResetUserSession
DeliverSessionOnce ==
    /\ request.endpoint = "none"
    /\ DeliverMessage(SessionTexts, MarkOutcomes, SessionSendOutcomes, SessionDriveAnswers)

NextRequest ==
    \/ DeliverSessionOnce
    \/ PostNoMessage
    \/ VerifyOnce
    \/ HealthCheckOnce
    \/ SendTestOnce
    \/ ResetOnce

SpecRequest == InitRequest /\ [][NextRequest]_vars


\* Two deliveries handled at the same time by two threads of the server.
\* Each thread runs handle_user_input for its own message: it reads the
\* sender's entry into its local current_menu, and later runs the branch for
\* that value, which may write the entry; another thread can run in between.
\* A dict read and a dict write are each one step.
ConcTexts == {<<"b","a","c","k">>, <<"1">>, <<"2">>, <<"1",".","1">>, <<"h","i">>}

ThreadIds == {1, 2}

NewThread(user_id, text) ==
    [from |-> user_id, text |-> text, pc |-> "start", current_menu |-> None,
     reply |-> NoMenuResponse, read_keys |-> {}, written_keys |-> {}]

InitConc ==
    /\ TESTING_MODE = TRUE
    /\ sheets_initialized = FALSE
    /\ drive_initialized = FALSE
    /\ VERIFY_TOKEN = ConfiguredSecret
    /\ user_sessions \in SessionStores
    /\ prev_sessions = user_sessions
    /\ request = [endpoint |-> "none"]
    /\ payload = EmptyJson
    /\ marked = <<>>
    /\ is_authorized = FALSE
    /\ sheets_calls = 0
    /\ sheet_result = NoSheetRead
    /\ menu_response = NoMenuResponse
    /\ drive_calls = 0
    /\ drive_result = NoDriveRead
    /\ sent = <<>>
    /\ calls = <<>>
    /\ http_response = NoResponse
    /\ \E u1 \in Senders, u2 \in Senders, t1 \in ConcTexts, t2 \in ConcTexts :
          threads = <<NewThread(u1, t1), NewThread(u2, t2)>>

\* current_menu = self.user_sessions.get(user_id, MENUS['MAIN'])
ReadSession(t) ==
    /\ threads[t].pc = "start"
    /\ threads' = [threads EXCEPT
                     ![t].pc = "read",
                     ![t].current_menu = DictGet(user_sessions, threads[t].from, MENUS.MAIN),
                     ![t].read_keys = {threads[t].from}]
    /\ UNCHANGED <<user_sessions, config, request, prev_sessions, marked, is_authorized,
                   sheets_calls, sheet_result, menu_response, drive_calls, sent,
                   http_response, payload, calls, drive_result>>

\* The branch for the value read: it returns the reply and may write the entry
ApplyTransition(t) ==
    /\ threads[t].pc = "read"
    /\ LET input_text == Strip(Lower(threads[t].text))
           handled == HandleFrom(user_sessions, threads[t].from, input_text,
                                 threads[t].current_menu)
           written == HandleFrom(<<>>, threads[t].from, input_text,
                                 threads[t].current_menu).sessions
       IN  /\ user_sessions' = handled.sessions
           /\ threads' = [threads EXCEPT ![t].pc = "done",
                                         ![t].reply = handled.response,
                                         ![t].written_keys = DOMAIN written]
    /\ UNCHANGED <<config, request, prev_sessions, marked, is_authorized,
                   sheets_calls, sheet_result, menu_response, drive_calls, sent,
                   http_response, payload, calls, drive_result>>

ThreadReads == \E t \in ThreadIds : ReadSession(t)
ThreadApplies == \E t \in ThreadIds : ApplyTransition(t)

NextConc == ThreadReads \/ ThreadApplies

SpecConc == InitConc /\ [][NextConc]_vars

----------------------------------------------------------------------------
(* Properties of one delivery (SpecDelivery) and of the running server (Spec) *)

\* The last request was a delivery whose sender passed check_authorization,
\* so handle_user_input ran on its text.
MenuRan == request.endpoint = "POST /webhook" /\ is_authorized

\* The menu a sender is in according to a session dict (no entry: main menu)
StateOf(sessions, user_id) == DictGet(sessions, user_id, MENUS.MAIN)

StateBefore == StateOf(prev_sessions, request.from)
StateAfter == StateOf(user_sessions, request.from)

\* The input as handle_user_input reads it
NormalizedText == Strip(Lower(request.text))

ResetInputs == {<<"b","a","c","k">>, <<"m","e","n","u">>, <<"m","a","i","n">>}

\* The menu dict of each menu
MenuDictOf(menu) ==
    CASE menu = "main" -> [text |-> MainMenuText, type |-> "main"]
      [] menu = "menu1" -> [text |-> Menu1Text, type |-> "menu1"]
      [] menu = "menu2" -> [text |-> Menu2Text, type |-> "menu2"]
      [] menu = "menu3" -> [text |-> Menu3Text, type |-> "menu3"]

\* The section each digit stands for
SectionOfDigit(d) ==
    CASE d = "1" -> "menu1" [] d = "2" -> "menu2" [] d = "3" -> "menu3"

\* The tokens each menu recognizes
RecognizedIn(menu) ==
    IF menu = "main" THEN {<<"1">>, <<"2">>, <<"3">>}
    ELSE {t \in LeafDotted \cup LeafUndotted : SectionOfDigit(t[1]) = menu}

\* C1: "back", "menu" and "main" leave the sender's session at the main menu
\* and return the main menu, whatever the session was before (a section, the
\* main menu itself, or no entry).
C1_BackResetsToMain ==
    (MenuRan /\ request.text \in ResetInputs)
        => /\ request.from \in DOMAIN user_sessions
           /\ user_sessions[request.from] = "main"
           /\ menu_response = MenuDictOf("main")
           /\ sent = <<[to |-> request.from, body |-> MainMenuText]>>

C1_Witness ==
    /\ MenuRan
    /\ request.text = <<"m","a","i","n">>
    /\ StateBefore = "menu3"
    /\ StateAfter = "main"

\* C2: an input that is neither a reset token nor recognized in the current
\* menu returns that menu's own dict, without a submenu marker, and leaves
\* the session store as it was.
C2_UnrecognizedSelfLoop ==
    (MenuRan /\ NormalizedText \notin ResetInputs \cup RecognizedIn(StateBefore))
        => /\ menu_response = MenuDictOf(StateBefore)
           /\ "isSubmenu" \notin DOMAIN menu_response
           /\ StateAfter = StateBefore
           /\ user_sessions = prev_sessions

C2_Witness ==
    /\ MenuRan
    /\ request.text = <<"1",".","1">>
    /\ StateBefore = "menu3"
    /\ StateAfter = "menu3"
    /\ menu_response.text = Menu3Text

\* C3: every entry of the session store is one of the four menus, after any
\* sequence of deliveries and resets.
C3_SessionsValid ==
    \A user_id \in DOMAIN user_sessions :
        user_sessions[user_id] \in {"main", "menu1", "menu2", "menu3"}

C3_Witness ==
    /\ request.endpoint = "reset_user_session"
    /\ \E user_id \in DOMAIN user_sessions : user_sessions[user_id] = "main"
    /\ \E user_id \in Senders : /\ user_id \in DOMAIN prev_sessions
                                /\ user_id \notin DOMAIN user_sessions

\* C4: a submenu choice made in its section leaves the session store as it
\* was after the whole delivery, whatever the file lookup gives.
C4_LeafKeepsSession ==
    (/\ MenuRan
     /\ StateBefore # "main"
     /\ NormalizedText \in RecognizedIn(StateBefore))
        => /\ IsSubmenu(menu_response)
           /\ drive_calls = 1
           /\ StateAfter = StateBefore
           /\ user_sessions = prev_sessions

C4_Witness ==
    /\ MenuRan
    /\ StateBefore = "menu1"
    /\ request.text = <<"1",".","2">>
    /\ menu_response.option = "1.2"
    /\ Len(sent) = 1 /\ Head(sent[1].body) = FilesHeader
    /\ StateAfter = "menu1"

\* C5: at the main menu (also for a sender without an entry) "1", "2" and
\* "3" move the session to the matching section and return its menu dict.
C5_MainMenuNavigates ==
    (MenuRan /\ StateBefore = "main" /\ request.text \in {<<"1">>, <<"2">>, <<"3">>})
        => /\ request.from \in DOMAIN user_sessions
           /\ user_sessions[request.from] = SectionOfDigit(request.text[1])
           /\ menu_response = MenuDictOf(SectionOfDigit(request.text[1]))
           /\ "isSubmenu" \notin DOMAIN menu_response

C5_Witness ==
    /\ MenuRan
    /\ request.from \notin DOMAIN prev_sessions
    /\ request.text = <<"2">>
    /\ user_sessions[request.from] = "menu2"
    /\ menu_response.text = Menu2Text

\* C6: in its section, a submenu option gives the same response whether it
\* is spelled "X.Y" or "XY": the response to the spelling received equals
\* the response to the other spelling, it carries the submenu marker, the
\* current menu and the dotted form as option.
C6_SpellingsAgree ==
    (/\ MenuRan
     /\ request.text \in LeafDotted \cup LeafUndotted
     /\ StateBefore = SectionOfDigit(request.text[1]))
        => LET x == request.text[1]
               y == request.text[Len(request.text)]
               other == IF Len(request.text) = 2 THEN <<x, ".", y>> ELSE <<x, y>>
               twin == handle_user_input(prev_sessions, request.from, other)
           IN  /\ menu_response = twin.response
               /\ user_sessions = twin.sessions
               /\ IsSubmenu(menu_response)
               /\ menu_response.type = StateBefore
               /\ menu_response.option = x \o "." \o y

C6_Witness ==
    /\ MenuRan
    /\ request.text = <<"2","2">>
    /\ StateBefore = "menu2"
    /\ menu_response.option = "2.2"

\* C7: a sender that the gate turns down (testing mode off) gets exactly the
\* rejection text; the menu and the file lookup do not run, the session store
\* stays as it was and the response is OK/200.
C7_DeniedStops ==
    (request.endpoint = "POST /webhook" /\ ~TESTING_MODE /\ ~is_authorized)
        => /\ sent = <<[to |-> request.from, body |-> RejectionText]>>
           /\ menu_response = NoMenuResponse
           /\ drive_calls = 0
           /\ user_sessions = prev_sessions
           /\ http_response = [body |-> "OK", status |-> 200]

C7_Witness ==
    /\ request.endpoint = "POST /webhook"
    /\ ~TESTING_MODE /\ ~is_authorized
    /\ sheet_result.kind = "values"
    /\ request.from = PhoneOther
    /\ request.text = <<"1">>
    /\ StateBefore = "menu2"
    /\ StateAfter = "menu2"
    /\ Len(sent) = 1

----------------------------------------------------------------------------
(* Properties of check_authorization (SpecAuth) *)

\* check_authorization has been applied to request.from and request.sheet
AuthChecked == request.endpoint = "check_authorization"

\* a is a suffix of b
IsSuffixOf(a, b) == \E k \in 0..Len(b) : SubSeq(b, k + 1, Len(b)) = a

\* The registry tokens of a sheet answer: the first cell of each row that has one
RegistryTokens(values) == {values[i][1] : i \in {j \in 1..Len(values) : values[j] # <<>>}}

\* C8: with testing mode off, a sheet service that is not initialized or a
\* lookup that raises authorizes nobody.
C8_FailClosed ==
    (/\ AuthChecked
     /\ ~TESTING_MODE
     /\ (~sheets_initialized \/ request.sheet.kind # "values"))
        => ~is_authorized

C8_Witness ==
    /\ AuthChecked
    /\ ~TESTING_MODE
    /\ sheets_initialized
    /\ request.sheet.kind = "Exception"
    /\ request.from = PhoneLocal
    /\ sheets_calls = 1
    /\ ~is_authorized

\* C9: with testing mode off and a lookup that returns, a number is
\* authorized exactly when some registry token with at least 10 digits has
\* the same digits as the number, ends with the number's digits, or is a
\* suffix of the number's digits.
C9_SuffixMatch ==
    (/\ AuthChecked
     /\ ~TESTING_MODE
     /\ sheets_initialized
     /\ request.sheet.kind = "values")
        => (is_authorized <=>
              \E token \in RegistryTokens(request.sheet.values) :
                  LET t == DigitsOf(token)
                      c == DigitsOf(request.from)
                  IN  /\ Len(t) >= 10
                      /\ (t = c \/ IsSuffixOf(c, t) \/ IsSuffixOf(t, c)))

C9_Witness ==
    /\ AuthChecked
    /\ ~TESTING_MODE
    /\ sheets_initialized
    /\ request.sheet = [kind |-> "values", values |-> <<<<CellShort>>, <<CellIntl>>>>]
    /\ request.from = PhoneNoDigit
    /\ is_authorized

\* C10: in testing mode every number is authorized and the sheet service is
\* not consulted, whether it is initialized or not and whatever its lookup
\* would answer.
C10_BypassAuthorizesAll ==
    (AuthChecked /\ TESTING_MODE)
        => /\ is_authorized
           /\ sheets_calls = 0
           /\ sheet_result.kind = "not_called"

C10_Witness ==
    /\ AuthChecked
    /\ TESTING_MODE
    /\ sheets_initialized
    /\ request.sheet.kind = "HttpError"
    /\ request.from = PhoneNoDigit
    /\ is_authorized
    /\ sheets_calls = 0

----------------------------------------------------------------------------
(* Properties of the delivery endpoint as a whole, under SpecPost *)

\* The endpoint has answered a POST /webhook
Posted == request.endpoint = "POST /webhook"

\* The payload carries no message: somewhere on the way to the first message
\* a key is missing or a list is empty
CarriesNoMessage(data) ==
    \/ "entry" \notin DOMAIN data
    \/ Len(data.entry) = 0
    \/ "changes" \notin DOMAIN data.entry[1]
    \/ Len(data.entry[1].changes) = 0
    \/ "value" \notin DOMAIN data.entry[1].changes[1]
    \/ "messages" \notin DOMAIN data.entry[1].changes[1].value
    \/ Len(data.entry[1].changes[1].value.messages) = 0

\* C11: a delivery whose payload carries no message is answered with the
\* success status and nothing else happens: no mark-read, no authorization
\* check, no send, no file lookup, no session change.  The code answers 500
\* when the entry list or the changes list is present and empty.
C11_NoMessageIsSuccess ==
    (Posted /\ CarriesNoMessage(payload))
        => /\ http_response = OkResponse
           /\ calls = <<>>
           /\ marked = <<>>
           /\ sheets_calls = 0
           /\ drive_calls = 0
           /\ sent = <<>>
           /\ user_sessions = prev_sessions

\* Some call of the delivery raised an exception that is not a
\* RequestException
UnexpectedFault == \E i \in 1..Len(calls) : calls[i].outcome = "Exception"

CallNames == [i \in 1..Len(calls) |-> calls[i].call]

\* The steps that follow mark-read were all taken: the authorization check,
\* and for an authorized sender the state transition and the reply, for a
\* denied sender the rejection
RemainingStepsTaken ==
    /\ Len(calls) >= 3
    /\ CallNames[2] = "check_authorization"
    /\ CallNames[Len(calls)] = "send_message"
    /\ Len(sent) = 1
    /\ is_authorized
         => /\ CallNames[3] = "handle_user_input"
            /\ MenuRan
            /\ user_sessions = handle_user_input(prev_sessions, request.from,
                                                 request.text).sessions

\* The part of C12 that concerns deliveries carrying a message
C12_MessageDeliveries ==
    (Posted /\ ~CarriesNoMessage(payload))
        => /\ http_response \in {OkResponse, ErrorResponse}
           /\ (http_response = ErrorResponse) => UnexpectedFault
           /\ (calls[1].outcome = "RequestException"
                 \/ calls[Len(calls)].outcome = "RequestException")
                => /\ RemainingStepsTaken
                   /\ (UnexpectedFault \/ http_response = OkResponse)
           /\ (~is_authorized \/ sheet_result \in SheetFailures
                 \/ drive_result.kind \in {"HttpError", "Exception"})
                => (UnexpectedFault \/ http_response = OkResponse)
           /\ ~is_authorized => http_response = OkResponse

\* C12: the server-error status is returned only after an unexpected fault;
\* a delivery without messages, a denied sender, a failed authorization or
\* file lookup and a failed mark-read or send end with the success status,
\* and a failed mark-read or send leaves the remaining steps in place.  It
\* fails on the payloads of C11 only.
C12_ServerErrorOnlyOnFault ==
    /\ (Posted /\ CarriesNoMessage(payload)) => http_response = OkResponse
    /\ C12_MessageDeliveries

----------------------------------------------------------------------------
(* Properties of the handshake, under SpecVerify *)

Verified == request.endpoint = "GET /webhook"

\* s occurs in body
Contains(body, s) ==
    \E i \in 1..(Len(body) - Len(s) + 1) : SubSeq(body, i, i + Len(s) - 1) = s

\* The caller supplied a token and it is the secret the server is configured
\* with
TokenIsSecret ==
    /\ request.token # NoneStr
    /\ VERIFY_TOKEN # NoneStr
    /\ request.token = VERIFY_TOKEN

\* The handshake with a token that was supplied, or a secret that is set
C13_SuppliedOrSet ==
    (Verified /\ (request.token # NoneStr \/ VERIFY_TOKEN # NoneStr))
        => /\ (request.mode = Subscribe /\ TokenIsSecret)
                => http_response = [body |-> request.challenge, status |-> 200]
           /\ ~(request.mode = Subscribe /\ TokenIsSecret)
                => http_response.status = 403
           /\ VERIFY_TOKEN # NoneStr => ~Contains(http_response.body, VERIFY_TOKEN)

\* C13: the handshake answers the challenge, verbatim and with status 200,
\* exactly when the mode is "subscribe" and the supplied token is the
\* configured secret; every other combination of mode, token (possibly
\* absent) and secret (possibly unset) is answered 403, and the body never
\* contains the secret.  The code answers the challenge when the token is
\* absent and the secret is unset.
C13_HandshakeNeedsSecret ==
    Verified
        => /\ (request.mode = Subscribe /\ TokenIsSecret)
                => http_response = [body |-> request.challenge, status |-> 200]
           /\ ~(request.mode = Subscribe /\ TokenIsSecret)
                => http_response.status = 403
           /\ VERIFY_TOKEN # NoneStr => ~Contains(http_response.body, VERIFY_TOKEN)

----------------------------------------------------------------------------
(* The file list, under SpecDelivery *)

\* The delivery selected a leaf option, so the files were looked up
FilesLookedUp == MenuRan /\ IsSubmenu(menu_response)

\* The files the lookup returned: those the Drive API listed, when the
\* service is initialized and the call succeeded
LookedUpFiles ==
    IF drive_result.kind = "files" THEN drive_result.files ELSE <<>>

\* The link shown for a file: its view link, else its download link
LinkOf(file) ==
    IF file.webViewLink # None THEN file.webViewLink ELSE file.webContentLink

\* C15: when the lookup returns N > 0 files, the one message sent has the
\* header, then N entries numbered 1..N in the lookup's order, each with the
\* file's name and link, then the "type back" footer; when the lookup returns
\* nothing, fails, or the Drive service is not initialized, the "no files
\* found" message is sent.
C15_FileList ==
    FilesLookedUp
        => LET files == LookedUpFiles
               N == Len(files)
               body == sent[1].body
           IN  /\ Len(sent) = 1
               /\ sent[1].to = request.from
               /\ drive_calls = 1
               /\ IF N > 0
                    THEN /\ Len(body) = 6 * N + 2
                         /\ body[1] = FilesHeader
                         /\ \A i \in 1..N :
                              SubSeq(body, 6 * i - 4, 6 * i + 1)
                                = <<ToString(i), ". ", files[i].name, "\n",
                                    LinkOf(files[i]), "\n\n">>
                         /\ body[6 * N + 2] = FilesFooter
                    ELSE body = NoFilesText

C15_Witness ==
    /\ FilesLookedUp
    /\ Len(LookedUpFiles) = 2
    /\ LookedUpFiles[1].webViewLink = None
    /\ LookedUpFiles[2].webViewLink # None
    /\ Len(sent) = 1
    /\ Len(sent[1].body) = 14
    /\ sent[1].body[8] = "2"

----------------------------------------------------------------------------
(* Reset, under Spec *)

WasReset == request.endpoint = "reset_user_session"

\* A message `text` from user_id is handled from the session dict `sessions`
\* exactly as from one in which user_id is explicitly in the main menu: same
\* reply, same resulting state of user_id, same entries of everybody else
HandledAsFromRoot(sessions, user_id, text) ==
    LET actual == handle_user_input(sessions, user_id, text)
        from_root == handle_user_input(DictSet(sessions, user_id, MENUS.MAIN),
                                       user_id, text)
    IN  /\ actual.response = from_root.response
        /\ StateOf(actual.sessions, user_id) = StateOf(from_root.sessions, user_id)
        /\ \A other \in Senders \ {user_id} :
              /\ (other \in DOMAIN actual.sessions) = (other \in DOMAIN sessions)
              /\ other \in DOMAIN sessions => actual.sessions[other] = sessions[other]

\* C16: a reset removes the sender's entry, whatever state it was in, and no
\* other entry; without an entry it changes nothing; and a sender without an
\* entry (after a reset or before the first message) has the next message
\* handled as from the main menu.
C16_ResetIsRoot ==
    /\ WasReset
         => /\ request.from \notin DOMAIN user_sessions
            /\ DOMAIN user_sessions = DOMAIN prev_sessions \ {request.from}
            /\ \A other \in DOMAIN user_sessions : user_sessions[other] = prev_sessions[other]
            /\ request.from \notin DOMAIN prev_sessions => user_sessions = prev_sessions
    /\ \A user_id \in Senders \ DOMAIN user_sessions :
          \A text \in Texts : HandledAsFromRoot(user_sessions, user_id, text)

C16_Witness ==
    /\ WasReset
    /\ request.from \in DOMAIN prev_sessions
    /\ prev_sessions[request.from] = MENUS.MENU_2
    /\ request.from \notin DOMAIN user_sessions
    /\ \E other \in DOMAIN user_sessions : user_sessions[other] = MENUS.MENU_3

----------------------------------------------------------------------------
(* The order of the steps of a delivery, under SpecPost *)

\* The positions of the calls named `name` in the call log
PositionsOf(name) == {i \in 1..Len(calls) : calls[i].call = name}

\* Every call named a comes before every call named b
AllBefore(a, b) == \A i \in PositionsOf(a), j \in PositionsOf(b) : i < j

\* C18: in a delivery that carries a message, mark-read is requested exactly
\* once, for the message delivered, and before the authorization check,
\* also when the sender is then denied; the authorization check comes before
\* the session store is read or written, and it is not touched for a denied
\* sender; the transition comes before the reply.
C18_StepOrder ==
    (Posted /\ ~CarriesNoMessage(payload))
        => /\ Cardinality(PositionsOf("mark_as_read")) = 1
           /\ marked = <<request.id>>
           /\ Cardinality(PositionsOf("check_authorization")) = 1
           /\ AllBefore("mark_as_read", "check_authorization")
           /\ AllBefore("check_authorization", "handle_user_input")
           /\ AllBefore("check_authorization", "send_message")
           /\ AllBefore("handle_user_input", "get_user_folder_files")
           /\ AllBefore("handle_user_input", "send_message")
           /\ Cardinality(PositionsOf("handle_user_input")) = (IF is_authorized THEN 1 ELSE 0)
           /\ ~is_authorized => user_sessions = prev_sessions
           /\ Cardinality(PositionsOf("send_message")) = 1

C18_Witness ==
    /\ Posted
    /\ ~is_authorized
    /\ CallNames = <<"mark_as_read", "check_authorization", "send_message">>
    /\ calls[1].outcome = "RequestException"
    /\ marked = <<request.id>>

C18_WitnessAuthorized ==
    /\ Posted
    /\ is_authorized
    /\ CallNames = <<"mark_as_read", "check_authorization", "handle_user_input",
                     "get_user_folder_files", "send_message">>

----------------------------------------------------------------------------
(* A stored state outside MENUS, under SpecFallback *)

InputHandled == request.endpoint = "handle_user_input"

\* What handle_user_input gives for the same message when the sender is in
\* the main menu
FromRoot ==
    handle_user_input(DictSet(prev_sessions, request.from, MENUS.MAIN),
                      request.from, request.text)

\* The state a stored value stands for when unknown values count as the
\* main menu
KnownOrRoot(state) == IF state \in MenuValues THEN state ELSE MENUS.MAIN

\* The inputs that reset: from an unknown state they do behave as from the
\* main menu
C19_BackFromUnknown ==
    (InputHandled /\ prev_sessions[request.from] \notin MenuValues
       /\ NormalizedText \in ResetInputs)
        => /\ menu_response = FromRoot.response
           /\ StateAfter = StateOf(FromRoot.sessions, request.from)

\* Inputs that are no option of the main menu get the main menu text from
\* an unknown state as well
C19_UnrecognizedFromUnknown ==
    (InputHandled /\ prev_sessions[request.from] \notin MenuValues
       /\ NormalizedText \notin ResetInputs \cup {<<"1">>, <<"2">>, <<"3">>})
        => /\ menu_response = FromRoot.response
           /\ KnownOrRoot(StateAfter) = StateOf(FromRoot.sessions, request.from)

----------------------------------------------------------------------------
(* What changes a session entry, under SpecRequest *)

\* The entry of user_id in a session dict (None: no entry)
EntryOf(sessions, user_id) == DictGet(sessions, user_id, None)

\* C20: the entry of a sender changes only in a step that is a delivery from
\* that sender which passed the authorization, or a reset of that sender;
\* deliveries from other senders, denied deliveries, deliveries without a
\* message, handshake calls, health probes and manual sends leave it as it
\* is, and no step happens by itself with time.
C20_OnlyOwnDeliveryOrReset ==
    [][\A user_id \in Senders :
          EntryOf(user_sessions', user_id) # EntryOf(user_sessions, user_id)
            => \/ /\ request'.endpoint = "POST /webhook"
                  /\ "from" \in DOMAIN request'
                  /\ request'.from = user_id
                  /\ is_authorized'
               \/ /\ request'.endpoint = "reset_user_session"
                  /\ request'.from = user_id]_vars

C20_Witness ==
    /\ Posted
    /\ is_authorized
    /\ EntryOf(user_sessions, request.from) = MENUS.MENU_1
    /\ EntryOf(prev_sessions, request.from) = MENUS.MAIN
    /\ \E other \in Senders \ {request.from} :
          /\ EntryOf(user_sessions, other) = MENUS.MENU_2
          /\ EntryOf(prev_sessions, other) = MENUS.MENU_2

----------------------------------------------------------------------------
(* Two concurrent deliveries, under SpecConc *)

BothDone == threads # <<>> /\ \A t \in ThreadIds : threads[t].pc = "done"

SameSender == threads[1].from = threads[2].from

\* The delivery of thread t handled alone, from the session dict the two
\* deliveries started with
Alone(t) == handle_user_input(prev_sessions, threads[t].from, threads[t].text)

\* The state the transition of thread t produced: the state it wrote, or the
\* state it read when it wrote nothing
ProducedBy(t) ==
    StateOf(HandleFrom(<<>>, threads[t].from, Strip(Lower(threads[t].text)),
                       threads[t].current_menu).sessions,
            threads[t].from)

ProducedState(t) ==
    IF threads[t].written_keys = {} THEN threads[t].current_menu ELSE ProducedBy(t)

\* C14: two concurrent deliveries from different senders each end with the
\* state and the reply they would have alone, and touch no entry but their
\* own; two from the same sender leave the state one of the two transitions
\* produced, a value of MENUS.
C14_ConcurrentDeliveries ==
    BothDone
        => IF ~SameSender
             THEN \A t \in ThreadIds :
                    /\ threads[t].reply = Alone(t).response
                    /\ EntryOf(user_sessions, threads[t].from)
                         = EntryOf(Alone(t).sessions, threads[t].from)
                    /\ threads[t].read_keys \subseteq {threads[t].from}
                    /\ threads[t].written_keys \subseteq {threads[t].from}
             ELSE /\ StateOf(user_sessions, threads[1].from)
                       \in {ProducedState(1), ProducedState(2)}
                  /\ StateOf(user_sessions, threads[1].from) \in MenuValues
                  /\ \A other \in Senders \ {threads[1].from} :
                        EntryOf(user_sessions, other) = EntryOf(prev_sessions, other)

C14_Witness ==
    /\ BothDone
    /\ ~SameSender
    /\ threads[1].written_keys = {threads[1].from}
    /\ threads[2].written_keys = {threads[2].from}
    /\ EntryOf(prev_sessions, threads[1].from) = MENUS.MENU_3
    /\ EntryOf(user_sessions, threads[1].from) = MENUS.MAIN
    /\ EntryOf(user_sessions, threads[2].from) = MENUS.MENU_2

C14_WitnessSameSender ==
    /\ BothDone
    /\ SameSender
    /\ threads[1].written_keys # {}
    /\ threads[2].written_keys # {}
    /\ ProducedState(1) # ProducedState(2)
    /\ StateOf(user_sessions, threads[1].from) = ProducedState(1)

\* The outcome of the two deliveries: the final session dict and the replies
Outcome(sessions, reply1, reply2) ==
    [sessions |-> sessions, reply1 |-> reply1, reply2 |-> reply2]

\* The outcome of running thread `first` to its end and then the other one
Sequential(first) ==
    LET second == 3 - first
        a == handle_user_input(prev_sessions, threads[first].from, threads[first].text)
        b == handle_user_input(a.sessions, threads[second].from, threads[second].text)
    IN  IF first = 1 THEN Outcome(b.sessions, a.response, b.response)
                     ELSE Outcome(b.sessions, b.response, a.response)

\* C17: two concurrent deliveries from the same sender end as if they had
\* run one after the other in some order: final session state and both
\* replies.  The code takes no lock, so both can read the state before
\* either writes.
C17_SerializedPerSender ==
    (BothDone /\ SameSender)
        => Outcome(user_sessions, threads[1].reply, threads[2].reply)
             \in {Sequential(1), Sequential(2)}

----------------------------------------------------------------------------
(* The one reply of a delivery, under SpecDelivery *)

\* The message body is a file list: header first, footer last
IsFileList(body) ==
    /\ Len(body) >= 8
    /\ body[1] = FilesHeader
    /\ body[Len(body)] = FilesFooter

\* C21: a delivery that carries a message and meets no unexpected fault
\* requests exactly one outbound text, addressed to the sender of the
\* message: the rejection text for a denied sender; for a leaf descriptor the
\* file list or, without files, the "no files found" text, and not the
\* descriptor's own text; otherwise the text of the returned menu.
C21_ExactlyOneReply ==
    (Posted /\ ~CarriesNoMessage(payload) /\ ~UnexpectedFault)
        => /\ Len(sent) = 1
           /\ sent[1].to = request.from
           /\ http_response = OkResponse
           /\ IF ~is_authorized
                THEN sent[1].body = RejectionText
              ELSE IF IsSubmenu(menu_response)
                THEN /\ sent[1].body # menu_response.text
                     /\ IF LookedUpFiles # <<>>
                          THEN IsFileList(sent[1].body)
                          ELSE sent[1].body = NoFilesText
              ELSE sent[1].body = menu_response.text

C21_Witness ==
    /\ Posted
    /\ is_authorized
    /\ IsSubmenu(menu_response)
    /\ calls[Len(calls)].outcome = "RequestException"
    /\ Len(sent) = 1
    /\ IsFileList(sent[1].body)
    /\ sent[1].to = PhoneOther

----------------------------------------------------------------------------
(* The input is read lowercased and trimmed, under SpecDelivery *)

\* x without the whitespace at its two ends
Trimmed(x) ==
    LET solid == {i \in 1..Len(x) : x[i] \notin Whitespace}
    IN  IF solid = {} THEN <<>>
        ELSE SubSeq(x, CHOOSE i \in solid : \A j \in solid : i <= j,
                       CHOOSE i \in solid : \A j \in solid : i >= j)

\* x with every upper-case letter replaced by its lower-case letter
Lowercased(x) ==
    [i \in 1..Len(x) |->
        IF \E k \in 1..Len(UpperLetters) : UpperLetters[k] = x[i]
          THEN LowerLetters[CHOOSE k \in 1..Len(UpperLetters) : UpperLetters[k] = x[i]]
          ELSE x[i]]

\* The delivery handled with the lowercased, trimmed text in place of the raw one
WithCleanText ==
    handle_user_input(prev_sessions, request.from, Lowercased(Trimmed(request.text)))

\* C22: a raw input gives the returned dict and the session state that its
\* lowercased, trimmed form gives, from every state; so " BacK " resets to
\* the main menu and " 1 " at the main menu enters menu 1.
C22_NormalizedInput ==
    MenuRan
        => /\ menu_response = WithCleanText.response
           /\ user_sessions = WithCleanText.sessions
           /\ Lowercased(Trimmed(request.text)) = <<"b","a","c","k">>
                => (StateAfter = MENUS.MAIN /\ menu_response = MenuDictOf("main"))
           /\ (Lowercased(Trimmed(request.text)) = <<"1">> /\ StateBefore = MENUS.MAIN)
                => (StateAfter = MENUS.MENU_1 /\ menu_response = MenuDictOf("menu1"))

C22_Witness ==
    /\ MenuRan
    /\ request.text = <<" ","1"," ">>
    /\ StateBefore = MENUS.MAIN
    /\ StateAfter = MENUS.MENU_1

C22_WitnessBack ==
    /\ MenuRan
    /\ request.text = <<" ","B","a","c","K"," ">>
    /\ StateBefore = MENUS.MENU_2
    /\ StateAfter = MENUS.MAIN

----------------------------------------------------------------------------
(* Leaf options belong to their section, under SpecDelivery *)

\* The option identifiers of each section (none at the main menu)
OptionsOf(menu) ==
    IF menu = "menu1" THEN {"1.1", "1.2", "1.3"}
    ELSE IF menu = "menu2" THEN {"2.1", "2.2", "2.3"}
    ELSE IF menu = "menu3" THEN {"3.1", "3.2", "3.3"}
    ELSE {}

LeafTokens == LeafDotted \cup LeafUndotted

\* C23: a dict with isSubmenu is returned only in the section its option
\* belongs to: its type is the current state and its option starts with that
\* section's digit; a leaf token typed at the main menu or in another
\* section is answered as any unrecognized input, with the current menu, and
\* no file lookup is made.
C23_LeafOnlyInItsSection ==
    MenuRan
        => /\ IsSubmenu(menu_response)
                => /\ StateBefore \in {"menu1", "menu2", "menu3"}
                   /\ menu_response.type = StateBefore
                   /\ menu_response.option \in OptionsOf(StateBefore)
                   /\ StateAfter = StateBefore
           /\ (NormalizedText \in LeafTokens
                 /\ SectionOfDigit(NormalizedText[1]) # StateBefore)
                => /\ ~IsSubmenu(menu_response)
                   /\ menu_response = MenuDictOf(StateBefore)
                   /\ drive_calls = 0
                   /\ sent[1].body = menu_response.text
                   /\ user_sessions = prev_sessions

C23_Witness ==
    /\ MenuRan
    /\ request.text = <<"2",".","1">>
    /\ StateBefore = "menu1"
    /\ menu_response = MenuDictOf("menu1")
    /\ drive_calls = 0

C23_WitnessAtMain ==
    /\ MenuRan
    /\ request.text = <<"1",".","1">>
    /\ StateBefore = "main"
    /\ menu_response = MenuDictOf("main")
    /\ drive_calls = 0

----------------------------------------------------------------------------
(* No section-to-section navigation *)

Sections == {"menu1", "menu2", "menu3"}

\* In the step, no sender's state goes from one section to another one
NoSectionJump ==
    \A user_id \in Senders :
        StateOf(user_sessions, user_id) \in Sections
            => StateOf(user_sessions', user_id)
                 \in {StateOf(user_sessions, user_id), MENUS.MAIN}

\* Deliveries handled one at a time (Spec): a message handled from a section
\* leaves the section or goes to the main menu, and "1", "2", "3" typed in a
\* section change nothing
C24_OneAtATime ==
    [][/\ NoSectionJump
       /\ (/\ request'.endpoint = "POST /webhook"
           /\ is_authorized'
           /\ StateOf(user_sessions, request'.from) \in Sections
           /\ Lowercased(Trimmed(request'.text)) \in {<<"1">>, <<"2">>, <<"3">>})
            => user_sessions' = user_sessions]_vars

\* C24: the state of a sender never goes from one section straight to
\* another: a message handled from a section leaves the state there or moves
\* it to the main menu, "1", "2", "3" handled from a section change nothing,
\* and every change of section passes through the main menu.  With two
\* deliveries of one sender handled at the same time (C17) the entry goes
\* from one section to the other in one write.
C24_NoSectionToSection ==
    [][/\ NoSectionJump
       /\ \A t \in ThreadIds :
            (/\ threads[t].pc = "read"
             /\ threads'[t].pc = "done"
             /\ threads[t].current_menu \in Sections
             /\ threads[t].text \in {<<"1">>, <<"2">>, <<"3">>})
              => user_sessions' = user_sessions]_vars

----------------------------------------------------------------------------
(* A payload with several messages, under SpecPost *)

MessagesOf(data) == data.entry[1].changes[1].value.messages

SeveralMessages == Posted /\ ~CarriesNoMessage(payload) /\ Len(MessagesOf(payload)) > 1

\* The first message of the payload handled alone, from the session dict as
\* it was
FirstAlone ==
    handle_user_input(prev_sessions, MessagesOf(payload)[1].from, MessagesOf(payload)[1].text)

\* C25: of a payload with several messages only the first is processed: one
\* mark-read, for its id; one authorization check, of its sender; for an
\* authorized sender one transition, that of its text, and none otherwise;
\* one reply, to its sender; the session dict ends as the first message alone
\* leaves it, so the other messages change nothing.
C25_OnlyFirstMessage ==
    SeveralMessages
        => LET first == MessagesOf(payload)[1]
           IN  /\ request.from = first.from
               /\ request.id = first.id
               /\ request.text = first.text
               /\ marked = <<first.id>>
               /\ Cardinality(PositionsOf("mark_as_read")) = 1
               /\ Cardinality(PositionsOf("check_authorization")) = 1
               /\ Cardinality(PositionsOf("handle_user_input")) <= 1
               /\ Cardinality(PositionsOf("send_message")) = 1
               /\ Len(sent) = 1
               /\ sent[1].to = first.from
               /\ IF is_authorized
                    THEN /\ menu_response = FirstAlone.response
                         /\ user_sessions = FirstAlone.sessions
                    ELSE /\ menu_response = NoMenuResponse
                         /\ user_sessions = prev_sessions

C25_Witness ==
    /\ SeveralMessages
    /\ is_authorized
    /\ Len(MessagesOf(payload)) = 3
    /\ MessagesOf(payload)[1].text = <<"1">>
    /\ MessagesOf(payload)[2].from # MessagesOf(payload)[1].from
    /\ MessagesOf(payload)[3].text = <<"b","a","c","k">>
    /\ MessagesOf(payload)[3].from = MessagesOf(payload)[1].from
    /\ StateOf(prev_sessions, request.from) = MENUS.MAIN
    /\ StateOf(user_sessions, request.from) = MENUS.MENU_1
    /\ marked = <<"wamid.1">>

====
